---- MODULE Spec2Model ----
(***************************************************************************)
(* Model of the latency experiment: the Tokyo forwarder (origin), the      *)
(* Frankfurt receiver (destination) and the shared statistics code.        *)
(*                                                                         *)
(*   Spec      the forwarder (src/tokyo-forwarder/src/main.rs)             *)
(*   LiveSpec  the forwarder with the fairness of its reconnect loops      *)
(*   SpecDest  the receiver's ingestion loop                               *)
(*             (src/frankfurt-receiver/src/main.rs)                        *)
(*   SpecBaselineParse  the ingestion loop of longer baseline runs         *)
(*   SpecLoss  the receiver's loss detection as a function of the set of   *)
(*             received sequence ids                                       *)
(*   SpecLossOnWire  the same in the word arithmetic of the source, over   *)
(*             ids at the ends of the range                                *)
(*   SpecStats ExperimentResults::from_measurements as a function of its   *)
(*             arguments (src/shared/src/lib.rs)                           *)
(*   SpecPercentile  ExperimentResults::percentile as a function of its    *)
(*             arguments                                                   *)
(***************************************************************************)
EXTENDS Integers, Sequences, FiniteSets, TLC

VARIABLES
    \* ---- forwarder (origin) ----
    pc,                        \* where the forwarder's single task stands
    sequence_counter,          \* the AtomicU64 created in main
    tcp_stream,                \* run_forwarder's handle of the Frankfurt leg
    ws_stream,                 \* run_forwarder's handle of the Binance leg
    delay,                     \* the local `delay` of the running reconnect_to_*
    reconnect_max_delay_secs,  \* Config.reconnect_max_delay_secs
    restart_delay,             \* what main slept before calling run_forwarder
    cur,                       \* the envelope being sent: {its id}, or {}
    \* ---- forwarder's environment ----
    frankfurt_port,            \* what listens at frankfurt_ip:frankfurt_port
    binance_up,                \* whether the Binance endpoint accepts connections
    \* ---- forwarder history (not read by the program) ----
    issued,                    \* sequence ids in the order they were issued
    attempts,                  \* attempts[k]: write attempts made for issued[k]
    written,                   \* sequence ids of successful writes, in order
    dropped,                   \* ids whose retry failed
    episode_leg,               \* leg of the current/last connection attempt
    attempt_no,                \* attempts made in the reconnection episode
    last_wait,                 \* the sleep that preceded the last attempt
    o_log,                     \* the last line the forwarder logged
    \* ---- receiver (destination) ----
    mode,                      \* Args.mode
    d_pc,                      \* where the receiver's task stands
    now,                       \* wall clock, in seconds since start_time was taken
    duration,                  \* Args.duration
    remaining,                 \* the `remaining` computed before the current wait
    measurements,              \* Vec<LatencyMeasurement>, as records
    received_sequence_ids,     \* HashSet<u64> (relay mode)
    sequence_id,               \* baseline mode's local counter
    events_this_second,        \* rolling view: events since the last report
    latencies_this_second,     \* rolling view: their end-to-end latencies
    last_second_report,        \* rolling view: when the last report was made
    last_report,               \* history: the last rolling report printed
    exit_cause,                \* history: which arm left the loop
    d_log,                     \* history: the last line the receiver logged
    inbound,                   \* history: what the wait of this iteration met
    results,                   \* the ExperimentResults, once computed
    aggregated,                \* history: the collections from_measurements got
    \* ---- loss detection as a function ----
    loss_issued,               \* how many ids the origin had issued
    loss_ids,                  \* the set handed to the computation
    loss_result,               \* {its result}, or {} before it ran
    loss_panicked,             \* whether the computation panicked
    \* ---- the statistics as functions ----
    stat_setup,                \* from_measurements: its setup_type
    stat_ms,                   \* from_measurements: its measurements
    stat_lost,                 \* from_measurements: its events_lost
    stat_result,               \* {the ExperimentResults}, or {} before it ran
    pct_data,                  \* percentile: its sorted_data
    pct_p,                     \* percentile: its percentile
    pct_result                 \* {its result}, or {} before it ran

ovars == <<pc, sequence_counter, tcp_stream, ws_stream, delay,
           reconnect_max_delay_secs, restart_delay, cur, frankfurt_port,
           binance_up, issued, attempts, written, dropped, episode_leg,
           attempt_no, last_wait, o_log>>
dvars == <<mode, d_pc, now, duration, remaining, measurements,
           received_sequence_ids, sequence_id, events_this_second,
           latencies_this_second, last_second_report, last_report, exit_cause,
           d_log, inbound, results, aggregated>>
lvars == <<loss_issued, loss_ids, loss_result, loss_panicked>>
svars == <<stat_setup, stat_ms, stat_lost, stat_result>>
pvars == <<pct_data, pct_p, pct_result>>
vars == <<ovars, dvars, lvars, svars, pvars>>

----------------------------------------------------------------------------
(* Bounds of the model *)

\* upstream messages that get a sequence id in one run of the model
MaxMsgs == 3
\* largest configured --max-delay explored
MaxDelayCfg == 4
\* attempts of one reconnection episode that are counted exactly
MaxAttempts == 3

(* Program constants *)

\* sleep(Duration::from_secs(5)) in main
RestartSleepSecs == 5
\* let mut delay = 1 in reconnect_to_binance / reconnect_to_frankfurt
InitialDelay == 1

\* an Option is a set with at most one element; The is its content
The(S) == CHOOSE x \in S : TRUE

Min(a, b) == IF a <= b THEN a ELSE b

RECURSIVE Pow2(_)
Pow2(n) == IF n = 0 THEN 1 ELSE 2 * Pow2(n - 1)

\* number of occurrences of x in sequence s
Count(s, x) == Cardinality({i \in 1..Len(s) : s[i] = x})

----------------------------------------------------------------------------
(* The relay leg's transport *)

\* The forwarder opens the leg with TcpStream::connect.
ForwarderTransport == "tcp"

\* The receiver's relay mode binds tokio::net::UdpSocket on the port.
ReceiverRelayBound == "udp_socket"

PortStates == {"closed", "tcp_listener", "udp_socket"}

\* TcpStream::connect succeeds only against a listening TCP socket: a port
\* that is closed, or bound by a UDP socket only, refuses the connection.
FrankfurtAccepts ==
    ForwarderTransport = "tcp" /\ frankfurt_port = "tcp_listener"

\* connect_async succeeds when the Binance endpoint is reachable.
BinanceAccepts == binance_up

----------------------------------------------------------------------------
(* Forwarder *)

InitOrigin ==
    /\ pc = "main"
    /\ sequence_counter = 0
    /\ tcp_stream = "none"
    /\ ws_stream = "none"
    /\ delay = 0
    /\ reconnect_max_delay_secs \in 0..MaxDelayCfg
    /\ restart_delay = 0
    /\ cur = {}
    /\ frankfurt_port \in PortStates
    /\ binance_up \in BOOLEAN
    /\ issued = <<>>
    /\ attempts = <<>>
    /\ written = <<>>
    /\ dropped = {}
    /\ episode_leg = "none"
    /\ attempt_no = 0
    /\ last_wait = 0
    /\ o_log = "Tokyo Forwarder starting"

\* a faulty variant: linear instead of exponential backoff
NextDelayLinear(d, maxd) == Min(d + 1, maxd)

\* delay = std::cmp::min(delay * 2, config.reconnect_max_delay_secs)
NextDelay(d, maxd) == Min(d * 2, maxd)

\* the attempt counter of the history, exact up to MaxAttempts
BumpAttempt(n) == IF n <= MaxAttempts THEN n + 1 ELSE n

ohist == <<issued, attempts, written, dropped>>
oenv == <<frankfurt_port, binance_up>>
oepisode == <<episode_leg, attempt_no, last_wait>>

\* run_forwarder: connect_to_frankfurt(&config).await? succeeds
ConnectFrankfurtOk ==
    /\ pc = "main"
    /\ FrankfurtAccepts
    /\ tcp_stream' = "open"
    /\ pc' = "connect_binance"
    /\ episode_leg' = "frankfurt"
    /\ attempt_no' = 0
    /\ last_wait' = restart_delay
    /\ o_log' = "Connected to Frankfurt"
    /\ UNCHANGED <<sequence_counter, ws_stream, delay, reconnect_max_delay_secs,
                   restart_delay, cur, oenv, ohist>>

\* run_forwarder: connect_to_frankfurt(&config).await? returns the error to main
ConnectFrankfurtErr ==
    /\ pc = "main"
    /\ ~FrankfurtAccepts
    /\ pc' = "main_err"
    /\ episode_leg' = "frankfurt"
    /\ attempt_no' = 0
    /\ last_wait' = restart_delay
    /\ o_log' = "Forwarder error. Restarting"
    /\ UNCHANGED <<sequence_counter, tcp_stream, ws_stream, delay,
                   reconnect_max_delay_secs, restart_delay, cur, oenv, ohist>>

\* run_forwarder: connect_to_binance(&config).await? succeeds
ConnectBinanceOk ==
    /\ pc = "connect_binance"
    /\ BinanceAccepts
    /\ ws_stream' = "open"
    /\ pc' = "read"
    /\ episode_leg' = "binance"
    /\ attempt_no' = 0
    /\ last_wait' = 0
    /\ o_log' = "Connected to Binance WebSocket"
    /\ UNCHANGED <<sequence_counter, tcp_stream, delay, reconnect_max_delay_secs,
                   restart_delay, cur, oenv, ohist>>

\* run_forwarder: connect_to_binance(&config).await? returns the error to main;
\* run_forwarder's locals, the connected tcp_stream among them, are dropped
ConnectBinanceErr ==
    /\ pc = "connect_binance"
    /\ ~BinanceAccepts
    /\ tcp_stream' = "none"
    /\ pc' = "main_err"
    /\ episode_leg' = "binance"
    /\ attempt_no' = 0
    /\ last_wait' = 0
    /\ o_log' = "Forwarder error. Restarting"
    /\ UNCHANGED <<sequence_counter, ws_stream, delay, reconnect_max_delay_secs,
                   restart_delay, cur, oenv, ohist>>

\* a faulty variant: the counter is created per run_forwarder call, so a
\* restart begins again at 0
MainRestartFreshCounter ==
    /\ pc = "main_err"
    /\ pc' = "main"
    /\ restart_delay' = RestartSleepSecs
    /\ sequence_counter' = 0
    /\ UNCHANGED <<tcp_stream, ws_stream, delay, reconnect_max_delay_secs, cur,
                   oenv, ohist, oepisode, o_log>>

\* main: eprintln!("Forwarder error..."); sleep(5 s); loop
MainRestart ==
    /\ pc = "main_err"
    /\ pc' = "main"
    /\ restart_delay' = RestartSleepSecs
    /\ UNCHANGED <<sequence_counter, tcp_stream, ws_stream, delay,
                   reconnect_max_delay_secs, cur, oenv, ohist, oepisode, o_log>>

\* the counter after sequence_counter.fetch_add(1, Ordering::SeqCst)
FetchAddNoIncrement(c) == c
FetchAdd(c) == c + 1

\* Ok(Message::Text(text)) that parses as BinanceBookTickerEvent: the id is
\* issued, the envelope serialized (serde_json::to_string of a struct of
\* integers and strings does not fail) and handed to write_all
RecvParsed ==
    /\ pc = "read"
    /\ Len(issued) < MaxMsgs
    /\ cur' = {sequence_counter}
    /\ sequence_counter' = FetchAdd(sequence_counter)
    /\ issued' = Append(issued, sequence_counter)
    /\ attempts' = Append(attempts, 0)
    /\ pc' = "send"
    /\ UNCHANGED <<tcp_stream, ws_stream, delay, reconnect_max_delay_secs,
                   restart_delay, oenv, written, dropped, oepisode, o_log>>

\* a faulty variant: the id is taken before the payload is parsed, so a
\* malformed message consumes one
RecvMalformedConsumesId ==
    /\ pc = "read"
    /\ sequence_counter < MaxMsgs
    /\ sequence_counter' = FetchAdd(sequence_counter)
    /\ o_log' = "Failed to parse Binance event"
    /\ UNCHANGED <<pc, tcp_stream, ws_stream, delay, reconnect_max_delay_secs,
                   restart_delay, cur, oenv, ohist, oepisode>>

\* Ok(Message::Text(text)) that does not parse
RecvMalformed ==
    /\ pc = "read"
    /\ o_log' = "Failed to parse Binance event"
    /\ UNCHANGED <<pc, sequence_counter, tcp_stream, ws_stream, delay,
                   reconnect_max_delay_secs, restart_delay, cur, oenv, ohist,
                   oepisode>>

\* Ok(_): Binary, Ping, Pong are ignored
RecvOther ==
    /\ pc = "read"
    /\ o_log' = "none"
    /\ UNCHANGED <<pc, sequence_counter, tcp_stream, ws_stream, delay,
                   reconnect_max_delay_secs, restart_delay, cur, oenv, ohist,
                   oepisode>>

\* Ok(Message::Close(_)) or Err(e): reconnect_to_binance is entered;
\* last_wait keeps the last sleep of the episode before until this one sleeps
RecvCloseOrErr ==
    /\ pc = "read"
    /\ pc' = "reconnect_binance"
    /\ delay' = InitialDelay
    /\ episode_leg' = "binance"
    /\ attempt_no' = 0
    /\ o_log' = "WebSocket closed or error. Reconnecting"
    /\ UNCHANGED <<sequence_counter, tcp_stream, ws_stream,
                   reconnect_max_delay_secs, restart_delay, cur, oenv, ohist,
                   last_wait>>

\* ws_stream.next() yields None: the while loop ends, run_forwarder returns
\* Ok(()) dropping both streams, and main calls it again at once
RecvStreamEnd ==
    /\ pc = "read"
    /\ tcp_stream' = "none"
    /\ ws_stream' = "none"
    /\ pc' = "main"
    /\ restart_delay' = 0
    /\ o_log' = "none"
    /\ UNCHANGED <<sequence_counter, delay, reconnect_max_delay_secs, cur, oenv,
                   ohist, oepisode>>

\* attempts with one more write attempt for the envelope in flight
Attempted == [attempts EXCEPT ![Len(attempts)] = @ + 1]

\* tcp_stream.write_all(message.as_bytes()).await is Ok
SendOk ==
    /\ pc = "send"
    /\ attempts' = Attempted
    /\ written' = Append(written, The(cur))
    /\ cur' = {}
    /\ pc' = "read"
    /\ UNCHANGED <<sequence_counter, tcp_stream, ws_stream, delay,
                   reconnect_max_delay_secs, restart_delay, oenv, issued,
                   dropped, oepisode, o_log>>

\* a faulty variant: the delay is not started again at the initial value
SendFailKeepsDelay ==
    /\ pc = "send"
    /\ attempts' = Attempted
    /\ pc' = "reconnect_frankfurt"
    /\ episode_leg' = "frankfurt"
    /\ attempt_no' = 0
    /\ o_log' = "Failed to send to Frankfurt. Reconnecting"
    /\ UNCHANGED <<sequence_counter, tcp_stream, ws_stream, delay,
                   reconnect_max_delay_secs, restart_delay, cur, oenv, issued,
                   written, dropped, last_wait>>

\* write_all is Err: reconnect_to_frankfurt is entered; last_wait keeps the
\* last sleep of the episode before until this one sleeps
SendFail ==
    /\ pc = "send"
    /\ attempts' = Attempted
    /\ pc' = "reconnect_frankfurt"
    /\ delay' = InitialDelay
    /\ episode_leg' = "frankfurt"
    /\ attempt_no' = 0
    /\ o_log' = "Failed to send to Frankfurt. Reconnecting"
    /\ UNCHANGED <<sequence_counter, tcp_stream, ws_stream,
                   reconnect_max_delay_secs, restart_delay, cur, oenv, issued,
                   written, dropped, last_wait>>

\* reconnect_to_frankfurt: println!("Attempting to reconnect..."), sleep(delay)
ReconnectFrankfurtSleep ==
    /\ pc = "reconnect_frankfurt"
    /\ last_wait' = delay
    /\ attempt_no' = BumpAttempt(attempt_no)
    /\ pc' = "reconnect_frankfurt_connect"
    /\ o_log' = "Attempting to reconnect to Frankfurt"
    /\ UNCHANGED <<sequence_counter, tcp_stream, ws_stream, delay,
                   reconnect_max_delay_secs, restart_delay, cur, oenv, ohist,
                   episode_leg>>

\* reconnect_to_frankfurt: connect_to_frankfurt is Ok, return Ok(stream);
\* the caller assigns it to tcp_stream and goes on to the retry
ReconnectFrankfurtOk ==
    /\ pc = "reconnect_frankfurt_connect"
    /\ FrankfurtAccepts
    /\ tcp_stream' = "open"
    /\ delay' = 0
    /\ pc' = "retry"
    /\ o_log' = "Successfully reconnected to Frankfurt"
    /\ UNCHANGED <<sequence_counter, ws_stream, reconnect_max_delay_secs,
                   restart_delay, cur, oenv, ohist, oepisode>>

\* a faulty variant: the loop gives up after its second failed attempt and
\* returns the error
ReconnectFrankfurtGivesUp ==
    /\ pc = "reconnect_frankfurt_connect"
    /\ ~FrankfurtAccepts
    /\ delay' = NextDelay(delay, reconnect_max_delay_secs)
    /\ pc' = IF attempt_no >= 2 THEN "main_err" ELSE "reconnect_frankfurt"
    /\ o_log' = "Reconnection failed"
    /\ UNCHANGED <<sequence_counter, tcp_stream, ws_stream,
                   reconnect_max_delay_secs, restart_delay, cur, oenv, ohist,
                   oepisode>>

\* reconnect_to_frankfurt: connect_to_frankfurt is Err, the delay doubles
\* up to the maximum, loop
ReconnectFrankfurtFail ==
    /\ pc = "reconnect_frankfurt_connect"
    /\ ~FrankfurtAccepts
    /\ delay' = NextDelay(delay, reconnect_max_delay_secs)
    /\ pc' = "reconnect_frankfurt"
    /\ o_log' = "Reconnection failed"
    /\ UNCHANGED <<sequence_counter, tcp_stream, ws_stream,
                   reconnect_max_delay_secs, restart_delay, cur, oenv, ohist,
                   oepisode>>

\* the retry tcp_stream.write_all(message.as_bytes()).await? is Ok
RetryOk ==
    /\ pc = "retry"
    /\ attempts' = Attempted
    /\ written' = Append(written, The(cur))
    /\ cur' = {}
    /\ pc' = "read"
    /\ UNCHANGED <<sequence_counter, tcp_stream, ws_stream, delay,
                   reconnect_max_delay_secs, restart_delay, oenv, issued,
                   dropped, oepisode, o_log>>

\* a faulty variant: a failed retry reconnects and tries again
RetryFailRetriesAgain ==
    /\ pc = "retry"
    /\ attempts' = Attempted
    /\ pc' = "reconnect_frankfurt"
    /\ delay' = InitialDelay
    /\ attempt_no' = 0
    /\ last_wait' = 0
    /\ o_log' = "Failed to send to Frankfurt. Reconnecting"
    /\ UNCHANGED <<sequence_counter, tcp_stream, ws_stream,
                   reconnect_max_delay_secs, restart_delay, cur, oenv, issued,
                   written, dropped, episode_leg>>

\* the retry is Err: `?` returns it to main, the envelope and both streams
\* are dropped
RetryFail ==
    /\ pc = "retry"
    /\ attempts' = Attempted
    /\ dropped' = dropped \cup cur
    /\ cur' = {}
    /\ tcp_stream' = "none"
    /\ ws_stream' = "none"
    /\ pc' = "main_err"
    /\ o_log' = "Forwarder error. Restarting"
    /\ UNCHANGED <<sequence_counter, delay, reconnect_max_delay_secs,
                   restart_delay, oenv, issued, written, oepisode>>

\* reconnect_to_binance: println!("Attempting to reconnect..."), sleep(delay)
ReconnectBinanceSleep ==
    /\ pc = "reconnect_binance"
    /\ last_wait' = delay
    /\ attempt_no' = BumpAttempt(attempt_no)
    /\ pc' = "reconnect_binance_connect"
    /\ o_log' = "Attempting to reconnect to Binance WebSocket"
    /\ UNCHANGED <<sequence_counter, tcp_stream, ws_stream, delay,
                   reconnect_max_delay_secs, restart_delay, cur, oenv, ohist,
                   episode_leg>>

\* reconnect_to_binance: connect_to_binance is Ok, return Ok(stream); the
\* caller assigns it to ws_stream and goes back to ws_stream.next()
ReconnectBinanceOk ==
    /\ pc = "reconnect_binance_connect"
    /\ BinanceAccepts
    /\ ws_stream' = "open"
    /\ delay' = 0
    /\ pc' = "read"
    /\ o_log' = "Successfully reconnected to Binance WebSocket"
    /\ UNCHANGED <<sequence_counter, tcp_stream, reconnect_max_delay_secs,
                   restart_delay, cur, oenv, ohist, oepisode>>

\* reconnect_to_binance: connect_to_binance is Err, the delay doubles up to
\* the maximum, loop
ReconnectBinanceFail ==
    /\ pc = "reconnect_binance_connect"
    /\ ~BinanceAccepts
    /\ delay' = NextDelay(delay, reconnect_max_delay_secs)
    /\ pc' = "reconnect_binance"
    /\ o_log' = "Reconnection failed"
    /\ UNCHANGED <<sequence_counter, tcp_stream, ws_stream,
                   reconnect_max_delay_secs, restart_delay, cur, oenv, ohist,
                   oepisode>>

\* the environment: the destination's port opens, closes or changes owner
FrankfurtPortChange ==
    /\ \E p \in PortStates \ {frankfurt_port} : frankfurt_port' = p
    /\ UNCHANGED <<pc, sequence_counter, tcp_stream, ws_stream, delay,
                   reconnect_max_delay_secs, restart_delay, cur, binance_up,
                   ohist, oepisode, o_log>>

\* the environment: the Binance endpoint becomes reachable or unreachable
BinanceChange ==
    /\ binance_up' = ~binance_up
    /\ UNCHANGED <<pc, sequence_counter, tcp_stream, ws_stream, delay,
                   reconnect_max_delay_secs, restart_delay, cur, frankfurt_port,
                   ohist, oepisode, o_log>>

ReconnectFrankfurtStep ==
    ReconnectFrankfurtSleep \/ ReconnectFrankfurtOk \/ ReconnectFrankfurtFail
ReconnectBinanceStep ==
    ReconnectBinanceSleep \/ ReconnectBinanceOk \/ ReconnectBinanceFail
RetryStep == RetryOk \/ RetryFail

\* the receiver's variables do not change while the forwarder runs
OriginOnly == UNCHANGED <<dvars, lvars, svars, pvars>>

NextOrigin ==
    \/ ConnectFrankfurtOk /\ OriginOnly
    \/ ConnectFrankfurtErr /\ OriginOnly
    \/ ConnectBinanceOk /\ OriginOnly
    \/ ConnectBinanceErr /\ OriginOnly
    \/ MainRestart /\ OriginOnly
    \/ RecvParsed /\ OriginOnly
    \/ RecvMalformed /\ OriginOnly
    \/ RecvOther /\ OriginOnly
    \/ RecvCloseOrErr /\ OriginOnly
    \/ RecvStreamEnd /\ OriginOnly
    \/ SendOk /\ OriginOnly
    \/ SendFail /\ OriginOnly
    \/ ReconnectFrankfurtSleep /\ OriginOnly
    \/ ReconnectFrankfurtOk /\ OriginOnly
    \/ ReconnectFrankfurtFail /\ OriginOnly
    \/ RetryOk /\ OriginOnly
    \/ RetryFail /\ OriginOnly
    \/ ReconnectBinanceSleep /\ OriginOnly
    \/ ReconnectBinanceOk /\ OriginOnly
    \/ ReconnectBinanceFail /\ OriginOnly
    \/ FrankfurtPortChange /\ OriginOnly
    \/ BinanceChange /\ OriginOnly

----------------------------------------------------------------------------
(* Receiver *)

(* Bounds of the receiver's model *)

\* largest --duration explored, in seconds
MaxDuration == 2
\* measurements collected in one run of the model
MaxRecv == 2
\* measurements collected in one baseline run of the model that has its
\* sequence id pass the limit of the parse failures' logging
MaxBaselineRecv == 5
\* largest sequence id an envelope on the wire carries
MaxWireId == 2
\* largest sequence id handed to the loss computation on its own
MaxLossId == 9

\* The model's clock counts whole seconds since start_time was taken; time
\* passes only while the task is suspended in timeout(remaining, ...), the
\* handling of a received unit takes none. The
\* producer's event time (ms) and the wall-clock stamps (ns) are expressed
\* in that same unit, so the divisions by 1_000_000 of the source are exact
\* on the model's values.
\* How long before its arrival a message was stamped: <<by Tokyo, by Binance>>.
AgePairs == {<<0, 1>>, <<1, 2>>}

----------------------------------------------------------------------------
(* f64 *)

\* The f64 values of the statistics are modelled by a binary floating-point
\* format of the same kind (round to nearest, ties to even, gradual
\* underflow) with a significand of MantBits bits where f64 has 53, and a
\* smallest quantum of 2^-FracBits where f64 has 2^-1074. A value is held as
\* the integer number of quanta it is worth, so that comparing and sorting
\* are those of the integers; the exponent has no upper limit.
MantBits == 3
FracBits == 8

\* 1.0
One == 2^FracBits

\* the significands are below this
MantLimit == 2^MantBits

\* the exponent at which a magnitude of q quanta has MantBits digits
RECURSIVE ShiftFor(_)
ShiftFor(q) == IF q < MantLimit THEN 0 ELSE 1 + ShiftFor(q \div 2)

\* the representable value nearest to n/d quanta, for n >= 0 and d > 0
RoundMag(n, d) ==
    LET s == ShiftFor(n \div d)
        unit == d * 2^s
        m == n \div unit
        r == n % unit
        up == (2 * r > unit) \/ (2 * r = unit /\ m % 2 = 1)
    IN  (IF up THEN m + 1 ELSE m) * 2^s

\* the representable value nearest to n/d quanta, for d > 0
RoundRatio(n, d) == IF n < 0 THEN 0 - RoundMag(0 - n, d) ELSE RoundMag(n, d)

\* `n as f64` of an integer
FromInt(n) == RoundRatio(n * One, 1)

\* a decimal literal num/den of the source, as the f64 it denotes
Literal(num, den) == RoundRatio(num * One, den)

\* a + b, a - b, a * b and a / b (b > 0) of f64
FAdd(a, b) == RoundRatio(a + b, 1)
FSub(a, b) == RoundRatio(a - b, 1)
FMul(a, b) == RoundRatio(a * b, One)
FDiv(a, b) == RoundRatio(a * One, b)

\* f64::floor and f64::ceil followed by `as usize`, for a >= 0
FFloor(a) == a \div One
FCeil(a) == (a + One - 1) \div One

\* the largest integer whose square is at most x, by bisection
RECURSIVE RootAbove(_, _)
RootAbove(h, x) == IF h * h > x THEN h ELSE RootAbove(2 * h, x)
RECURSIVE RootBetween(_, _, _)
RootBetween(lo, hi, x) ==
    IF hi - lo <= 1
    THEN lo
    ELSE LET mid == (lo + hi) \div 2
         IN  IF mid * mid <= x
             THEN RootBetween(mid, hi, x)
             ELSE RootBetween(lo, mid, x)
IntegerRoot(x) == RootBetween(0, RootAbove(1, x), x)

\* f64::sqrt, correctly rounded, for a >= 0: the root is taken with MantBits
\* digits below the quantum, and an inexact root lies above the digits kept
FSqrt(a) ==
    IF a = 0
    THEN 0
    ELSE LET x == a * One * MantLimit * MantLimit
             r == IntegerRoot(x)
         IN  IF r * r = x
             THEN RoundMag(r, MantLimit)
             ELSE RoundMag(2 * r + 1, 2 * MantLimit)

\* iter().sum::<f64>(): the values added one by one, from 0.0
RECURSIVE FSumFrom(_, _)
FSumFrom(acc, s) ==
    IF s = <<>> THEN acc ELSE FSumFrom(FAdd(acc, Head(s)), Tail(s))
FSum(s) == FSumFrom(0, s)

\* a faulty variant: the baseline record carries a mid-path stamp, the
\* arrival time itself, and so a mid-path latency of 0.0
NewBaselineWithMidPath(sid, event_time, frankfurt_time) ==
    [sequence_id |-> sid,
     binance_event_time |-> event_time,
     tokyo_receive_time |-> {frankfurt_time},
     frankfurt_receive_time |-> frankfurt_time,
     end_to_end_latency_ms |->
         FSub(FromInt(frankfurt_time), FromInt(event_time)),
     backbone_latency_ms |-> {0}]

\* LatencyMeasurement::new_baseline
NewBaseline(sid, event_time, frankfurt_time) ==
    [sequence_id |-> sid,
     binance_event_time |-> event_time,
     tokyo_receive_time |-> {},
     frankfurt_receive_time |-> frankfurt_time,
     end_to_end_latency_ms |->
         FSub(FromInt(frankfurt_time), FromInt(event_time)),
     backbone_latency_ms |-> {}]

\* LatencyMeasurement::new_aws_backbone
NewAwsBackbone(sid, event_time, tokyo_time, frankfurt_time) ==
    [sequence_id |-> sid,
     binance_event_time |-> event_time,
     tokyo_receive_time |-> {tokyo_time},
     frankfurt_receive_time |-> frankfurt_time,
     end_to_end_latency_ms |->
         FSub(FromInt(frankfurt_time), FromInt(event_time)),
     backbone_latency_ms |-> {FromInt(frankfurt_time - tokyo_time)}]

SeqMin(s) == CHOOSE x \in {s[i] : i \in 1..Len(s)} :
                 \A i \in 1..Len(s) : x <= s[i]
SeqMax(s) == CHOOSE x \in {s[i] : i \in 1..Len(s)} :
                 \A i \in 1..Len(s) : x >= s[i]

SetMin(S) == CHOOSE x \in S : \A y \in S : x <= y
SetMax(S) == CHOOSE x \in S : \A y \in S : x >= y

\* the per-second line: the number of events, their mean, min and max
RollingReport(lats, at) ==
    [avg |-> FDiv(FSum(lats), FromInt(Len(lats))), n |-> Len(lats),
     min |-> SeqMin(lats), max |-> SeqMax(lats), at |-> at]

NoReport == [avg |-> 0, n |-> 0, min |-> 0, max |-> 0, at |-> -1]

\* "Detect packet loss by checking for gaps in sequence IDs". The ids of the
\* model are far below 2^64, where the u64/usize arithmetic of the source is
\* exact.
\* a faulty variant: the span is counted from id 0, the first id an origin
\* issues, instead of from the smallest id received
EventsLostFromZero(ids) ==
    IF ids # {}
    THEN (SetMax(ids) + 1) - Cardinality(ids)
    ELSE 0
\* a faulty variant: the span is counted without its last id
EventsLostOffByOne(ids) ==
    IF ids # {}
    THEN (SetMax(ids) - SetMin(ids)) - Cardinality(ids)
    ELSE 0
EventsLost(ids) ==
    IF ids # {}
    THEN LET min_seq == SetMin(ids)
             max_seq == SetMax(ids)
             expected_count == max_seq - min_seq + 1
             actual_count == Cardinality(ids)
         IN  expected_count - actual_count
    ELSE 0

\* latencies.sort_by(|a, b| a.partial_cmp(b).unwrap()): the values in
\* ascending order (no value of the model is NaN)
RECURSIVE Insert(_, _)
Insert(x, s) ==
    IF s = <<>>
    THEN <<x>>
    ELSE IF x < Head(s)
         THEN <<x>> \o s
         ELSE <<Head(s)>> \o Insert(x, Tail(s))
RECURSIVE SortAscending(_)
SortAscending(s) ==
    IF s = <<>> THEN <<>> ELSE Insert(Head(s), SortAscending(Tail(s)))

\* a faulty variant: the span of the index is one short
PercentileIndexShort(len, percentile) == FMul(percentile, FromInt(len - 2))
\* let index = percentile * (len - 1) as f64
PercentileIndex(len, percentile) == FMul(percentile, FromInt(len - 1))

\* ExperimentResults::percentile; sorted_data[i] of the source is
\* sorted_data[i + 1] here
Percentile(sorted_data, percentile) ==
    LET len == Len(sorted_data)
    IN  IF len = 0
        THEN 0
        ELSE IF len = 1
        THEN sorted_data[1]
        ELSE LET index == PercentileIndex(len, percentile)
                 lower == FFloor(index)
                 upper == FCeil(index)
                 weight == FSub(index, FromInt(lower))
             IN  FAdd(FMul(sorted_data[lower + 1], FSub(One, weight)),
                      FMul(sorted_data[upper + 1], weight))

\* a faulty variant: the empty summary reports no loss, whatever was passed
EmptyResultsNoLoss(setup_type, events_lost) ==
    [setup_type |-> setup_type, sample_count |-> 0, events_lost |-> 0,
     avg_latency_ms |-> 0, median_latency_ms |-> 0, p95_latency_ms |-> 0,
     p99_latency_ms |-> 0, min_latency_ms |-> 0, max_latency_ms |-> 0,
     jitter_stddev_ms |-> 0, backbone_avg_latency_ms |-> {},
     backbone_median_latency_ms |-> {}]
\* from_measurements: if sample_count == 0 { return Self { ... } }
EmptyResults(setup_type, events_lost) ==
    [setup_type |-> setup_type, sample_count |-> 0,
     events_lost |-> events_lost,
     avg_latency_ms |-> 0, median_latency_ms |-> 0, p95_latency_ms |-> 0,
     p99_latency_ms |-> 0, min_latency_ms |-> 0, max_latency_ms |-> 0,
     jitter_stddev_ms |-> 0, backbone_avg_latency_ms |-> {},
     backbone_median_latency_ms |-> {}]

\* a faulty variant: a record without a mid-path latency counts as 0.0
BackboneLatenciesOrZero(ms) ==
    [i \in 1..Len(ms) |->
        IF ms[i].backbone_latency_ms = {}
        THEN 0
        ELSE The(ms[i].backbone_latency_ms)]
\* measurements.iter().filter_map(|m| m.backbone_latency_ms).collect()
BackboneLatencies(ms) ==
    LET carrying == SelectSeq(ms,
                              LAMBDA m : m.backbone_latency_ms # {})
    IN  [i \in 1..Len(carrying) |-> The(carrying[i].backbone_latency_ms)]

\* the squared deviations from avg, in the order of the sorted latencies
SquaredDeviations(latencies, avg) ==
    [i \in 1..Len(latencies) |->
        LET diff == FSub(latencies[i], avg) IN FMul(diff, diff)]

\* ExperimentResults::from_measurements
FromMeasurements(setup_type, ms, events_lost) ==
    LET sample_count == Len(ms)
    IN  IF sample_count = 0
        THEN EmptyResults(setup_type, events_lost)
        ELSE
        LET latencies ==
                SortAscending([i \in 1..sample_count |->
                            ms[i].end_to_end_latency_ms])
            avg_latency_ms == FDiv(FSum(latencies), FromInt(sample_count))
            variance == FDiv(FSum(SquaredDeviations(latencies,
                                                    avg_latency_ms)),
                             FromInt(sample_count))
            backbone_latencies == BackboneLatencies(ms)
            sorted_backbone == SortAscending(backbone_latencies)
        IN  [setup_type |-> setup_type,
             sample_count |-> sample_count,
             events_lost |-> events_lost,
             avg_latency_ms |-> avg_latency_ms,
             median_latency_ms |-> Percentile(latencies, Literal(50, 100)),
             p95_latency_ms |-> Percentile(latencies, Literal(95, 100)),
             p99_latency_ms |-> Percentile(latencies, Literal(99, 100)),
             min_latency_ms |-> latencies[1],
             max_latency_ms |-> latencies[sample_count],
             jitter_stddev_ms |-> FSqrt(variance),
             backbone_avg_latency_ms |->
                 IF backbone_latencies # <<>>
                 THEN {FDiv(FSum(sorted_backbone),
                            FromInt(Len(sorted_backbone)))}
                 ELSE {},
             backbone_median_latency_ms |->
                 IF backbone_latencies # <<>>
                 THEN {Percentile(sorted_backbone, Literal(50, 100))}
                 ELSE {}]

NoResults == [setup_type |-> "none", sample_count |-> 0, events_lost |-> 0]

\* run_baseline_mode / run_aws_backbone_mode up to the loop: the stream is
\* connected or the socket bound, start_time and last_second_report taken
InitDest ==
    /\ mode \in {"baseline", "aws-backbone"}
    /\ d_pc = "loop"
    /\ now = 0
    /\ duration \in 0..MaxDuration
    /\ remaining = 0
    /\ measurements = <<>>
    /\ received_sequence_ids = {}
    /\ sequence_id = 0
    /\ events_this_second = 0
    /\ latencies_this_second = <<>>
    /\ last_second_report = 0
    /\ last_report = NoReport
    /\ exit_cause = "none"
    /\ d_log = "Collecting data"
    /\ inbound = "none"
    /\ results = NoResults
    /\ aggregated = <<>>

\* the arguments of the run
dargs == <<mode, duration>>

drolling == <<events_this_second, latencies_this_second, last_second_report,
              last_report>>
dcollected == <<measurements, received_sequence_ids, sequence_id>>

\* loop top: elapsed >= duration, break
LoopDeadline ==
    /\ d_pc = "loop"
    /\ now >= duration
    /\ d_pc' = "collected"
    /\ exit_cause' = "duration"
    /\ d_log' = "Duration reached, stopping collection"
    /\ UNCHANGED <<dargs, now, remaining, aggregated, dcollected, drolling,
                   inbound, results>>

\* a faulty variant: every wait is given the whole duration
WaitBoundFixed == duration
\* timeout(remaining, ...): how long a wait may take
WaitBound == remaining

\* loop top: remaining = duration - elapsed, and the wait begins
LoopWait ==
    /\ d_pc = "loop"
    /\ now < duration
    /\ remaining' = duration - now
    /\ d_pc' = "wait"
    /\ inbound' = "none"
    /\ UNCHANGED <<dargs, now, aggregated, dcollected, drolling, exit_cause,
                   d_log, results>>

\* the moments at which the pending receive may complete
ArrivalTimes == now..(now + WaitBound)

\* "Track for per-second stats" and "Report stats every second": the sample
\* of latency lat, recorded at time t, is added; when a second or more has
\* passed since the last report the line is printed and the counters reset
RollingUpdate(lat, t) ==
    LET lats == Append(latencies_this_second, lat)
    IN  IF t - last_second_report >= 1
        THEN /\ last_report' = RollingReport(lats, t)
             /\ events_this_second' = 0
             /\ latencies_this_second' = <<>>
             /\ last_second_report' = t
        ELSE /\ events_this_second' = events_this_second + 1
             /\ latencies_this_second' = lats
             /\ UNCHANGED <<last_second_report, last_report>>

\* a faulty variant: an envelope whose id was received before is suppressed
RelayRecvEventOnce ==
    /\ d_pc = "wait"
    /\ mode = "aws-backbone"
    /\ \E t \in ArrivalTimes, id \in 0..MaxWireId, age \in AgePairs :
          LET m == NewAwsBackbone(id, t - age[2], t - age[1], t)
          IN  /\ now' = t
              /\ received_sequence_ids' = received_sequence_ids \cup {id}
              /\ IF id \in received_sequence_ids
                 THEN UNCHANGED <<measurements, drolling>>
                 ELSE /\ measurements' = Append(measurements, m)
                      /\ RollingUpdate(m.end_to_end_latency_ms, t)
    /\ inbound' = "event"
    /\ d_pc' = "loop"
    /\ UNCHANGED <<dargs, remaining, aggregated, sequence_id, exit_cause, d_log,
                   results>>

\* aws-backbone: a datagram that is UTF-8 and parses as ForwardedEvent
RelayRecvEvent ==
    /\ d_pc = "wait"
    /\ mode = "aws-backbone"
    /\ \E t \in ArrivalTimes, id \in 0..MaxWireId, age \in AgePairs :
          LET m == NewAwsBackbone(id, t - age[2], t - age[1], t)
          IN  /\ now' = t
              /\ received_sequence_ids' = received_sequence_ids \cup {id}
              /\ measurements' = Append(measurements, m)
              /\ RollingUpdate(m.end_to_end_latency_ms, t)
    /\ inbound' = "event"
    /\ d_pc' = "loop"
    /\ UNCHANGED <<dargs, remaining, aggregated, sequence_id, exit_cause, d_log,
                   results>>

\* aws-backbone: a datagram that is not UTF-8 or not a ForwardedEvent
RelayRecvMalformed ==
    /\ d_pc = "wait"
    /\ mode = "aws-backbone"
    /\ \E t \in ArrivalTimes : now' = t
    /\ d_log' = "Failed to parse"
    /\ inbound' = "malformed"
    /\ d_pc' = "loop"
    /\ UNCHANGED <<dargs, remaining, aggregated, dcollected, drolling, exit_cause,
                   results>>

\* aws-backbone: recv_from returns an error, break
RelayRecvError ==
    /\ d_pc = "wait"
    /\ mode = "aws-backbone"
    /\ \E t \in ArrivalTimes : now' = t
    /\ d_log' = "UDP recv error"
    /\ inbound' = "error"
    /\ exit_cause' = "error"
    /\ d_pc' = "collected"
    /\ UNCHANGED <<dargs, remaining, aggregated, dcollected, drolling, results>>

\* baseline logs a parse failure only while sequence_id < 5
ParseLogLimit == 5

\* a faulty variant: the records share the vector of the rolling view, so
\* clearing it after a report drops the records collected so far
BaselineRecvEventDrained ==
    /\ d_pc = "wait"
    /\ mode = "baseline"
    /\ \E t \in ArrivalTimes, age \in AgePairs :
          LET m == NewBaseline(sequence_id, t - age[2], t)
          IN  /\ now' = t
              /\ measurements' = IF t - last_second_report >= 1
                                 THEN <<>>
                                 ELSE Append(measurements, m)
              /\ RollingUpdate(m.end_to_end_latency_ms, t)
    /\ sequence_id' = sequence_id + 1
    /\ d_log' = IF sequence_id = 0 THEN "First message received" ELSE d_log
    /\ inbound' = "event"
    /\ d_pc' = "loop"
    /\ UNCHANGED <<dargs, remaining, aggregated, received_sequence_ids,
                   exit_cause, results>>

\* baseline: a text message that parses as BinanceBookTickerEvent
BaselineRecvEvent ==
    /\ d_pc = "wait"
    /\ mode = "baseline"
    /\ \E t \in ArrivalTimes, age \in AgePairs :
          LET m == NewBaseline(sequence_id, t - age[2], t)
          IN  /\ now' = t
              /\ measurements' = Append(measurements, m)
              /\ RollingUpdate(m.end_to_end_latency_ms, t)
    /\ sequence_id' = sequence_id + 1
    /\ d_log' = IF sequence_id = 0 THEN "First message received" ELSE d_log
    /\ inbound' = "event"
    /\ d_pc' = "loop"
    /\ UNCHANGED <<dargs, remaining, aggregated, received_sequence_ids,
                   exit_cause, results>>

\* a faulty variant: the local sequence id is advanced before the parse
BaselineRecvMalformedCounts ==
    /\ d_pc = "wait"
    /\ mode = "baseline"
    /\ \E t \in ArrivalTimes : now' = t
    /\ d_log' = IF sequence_id < ParseLogLimit
                THEN "Failed to parse message"
                ELSE d_log
    /\ inbound' = "malformed"
    /\ d_pc' = "loop"
    /\ sequence_id' = IF sequence_id < MaxBaselineRecv
                      THEN sequence_id + 1
                      ELSE sequence_id
    /\ UNCHANGED <<dargs, remaining, aggregated, measurements,
                   received_sequence_ids, drolling, exit_cause, results>>

\* baseline: a text message that does not parse
BaselineRecvMalformed ==
    /\ d_pc = "wait"
    /\ mode = "baseline"
    /\ \E t \in ArrivalTimes : now' = t
    /\ d_log' = IF sequence_id < ParseLogLimit
                THEN "Failed to parse message"
                ELSE d_log
    /\ inbound' = "malformed"
    /\ d_pc' = "loop"
    /\ UNCHANGED <<dargs, remaining, aggregated, dcollected, drolling, exit_cause,
                   results>>

\* baseline: a message that is not text (binary, ping, pong, close frame)
BaselineRecvNonText ==
    /\ d_pc = "wait"
    /\ mode = "baseline"
    /\ \E t \in ArrivalTimes : now' = t
    /\ inbound' = "nontext"
    /\ d_pc' = "loop"
    /\ UNCHANGED <<dargs, remaining, aggregated, dcollected, drolling, exit_cause,
                   d_log, results>>

\* baseline: Ok(Some(Err(e))), break
BaselineStreamError ==
    /\ d_pc = "wait"
    /\ mode = "baseline"
    /\ \E t \in ArrivalTimes : now' = t
    /\ d_log' = "WebSocket error"
    /\ inbound' = "error"
    /\ exit_cause' = "error"
    /\ d_pc' = "collected"
    /\ UNCHANGED <<dargs, remaining, aggregated, dcollected, drolling, results>>

\* baseline: Ok(None), break
BaselineStreamClosed ==
    /\ d_pc = "wait"
    /\ mode = "baseline"
    /\ \E t \in ArrivalTimes : now' = t
    /\ d_log' = "WebSocket connection closed"
    /\ inbound' = "closed"
    /\ exit_cause' = "closed"
    /\ d_pc' = "collected"
    /\ UNCHANGED <<dargs, remaining, aggregated, dcollected, drolling, results>>

\* a faulty variant: the wait gives up at once instead of after `remaining`
WaitTimeoutAtOnce ==
    /\ d_pc = "wait"
    /\ d_log' = "Timeout reached"
    /\ inbound' = "timeout"
    /\ exit_cause' = "timeout"
    /\ d_pc' = "collected"
    /\ UNCHANGED <<dargs, now, remaining, aggregated, dcollected, drolling,
                   results>>

\* either mode: the timeout of the wait elapses, break
WaitTimeout ==
    /\ d_pc = "wait"
    /\ now' = now + WaitBound
    /\ d_log' = "Timeout reached"
    /\ inbound' = "timeout"
    /\ exit_cause' = "timeout"
    /\ d_pc' = "collected"
    /\ UNCHANGED <<dargs, remaining, aggregated, dcollected, drolling, results>>

\* after the loop: the events_lost handed to from_measurements, the result
\* of the loss detection in relay mode and the literal 0 in baseline mode
LossArgument ==
    IF mode = "aws-backbone" THEN EventsLost(received_sequence_ids) ELSE 0

\* after the loop: loss detection, the CSV file written when one was asked
\* for, the results computed from the measurements and handed to
\* std::fs::write(&args.output, ...)?, which writes them or fails and
\* returns the error, on which main exits with status 1
Finalize ==
    /\ d_pc = "collected"
    /\ results' = FromMeasurements(mode, measurements, LossArgument)
    /\ aggregated' = Append(aggregated, measurements)
    /\ \/ d_pc' = "done" /\ d_log' = "Results written"
       \/ d_pc' = "failed" /\ d_log' = "Error in mode"
    /\ UNCHANGED <<dargs, now, remaining, dcollected, drolling, exit_cause,
                   inbound>>

\* after the loop, in a run given --csv-output (an argument nothing else
\* reads): LatencyMeasurement::write_to_csv(...)? fails and returns the
\* error before from_measurements is reached; main exits with status 1
FinalizeCsvError ==
    /\ d_pc = "collected"
    /\ d_pc' = "failed"
    /\ d_log' = "Error in mode"
    /\ UNCHANGED <<dargs, now, remaining, dcollected, drolling, exit_cause,
                   inbound, results, aggregated>>

\* the forwarder's variables do not change while the receiver runs
DestOnly == UNCHANGED <<ovars, lvars, svars, pvars>>

\* the runs of the model collect MaxRecv measurements at most
NextDest ==
    \/ LoopDeadline /\ DestOnly
    \/ LoopWait /\ DestOnly
    \/ Len(measurements) < MaxRecv /\ RelayRecvEvent /\ DestOnly
    \/ RelayRecvMalformed /\ DestOnly
    \/ RelayRecvError /\ DestOnly
    \/ Len(measurements) < MaxRecv /\ BaselineRecvEvent /\ DestOnly
    \/ BaselineRecvMalformed /\ DestOnly
    \/ BaselineRecvNonText /\ DestOnly
    \/ BaselineStreamError /\ DestOnly
    \/ BaselineStreamClosed /\ DestOnly
    \/ WaitTimeout /\ DestOnly
    \/ Finalize /\ DestOnly
    \/ FinalizeCsvError /\ DestOnly

\* The ingestion loop of baseline runs that last a second at least, with
\* text messages arriving, well-formed or not, up to MaxBaselineRecv of the
\* first.
InitBaselineParse ==
    /\ InitDest
    /\ mode = "baseline"
    /\ duration >= 1

NextBaselineParse ==
    \/ LoopDeadline /\ DestOnly
    \/ LoopWait /\ DestOnly
    \/ Len(measurements) < MaxBaselineRecv /\ BaselineRecvEvent /\ DestOnly
    \/ BaselineRecvMalformed /\ DestOnly
    \/ WaitTimeout /\ DestOnly

----------------------------------------------------------------------------
(* Loss detection as a function of the set of received ids *)

\* The origin issued the ids 0 .. loss_issued - 1 and the receiver got some
\* of them, each at most once as far as the set is concerned.
InitLoss ==
    /\ loss_issued \in 0..(MaxLossId + 1)
    /\ loss_ids \in SUBSET (0..(loss_issued - 1))
    /\ loss_result = {}
    /\ loss_panicked = FALSE

DetectLoss ==
    /\ loss_result = {}
    /\ loss_result' = {EventsLost(loss_ids)}
    /\ UNCHANGED <<loss_issued, loss_ids, loss_panicked, ovars, dvars, svars,
                   pvars>>

NextLoss == DetectLoss

----------------------------------------------------------------------------
(* Loss detection on the ids the wire can carry *)

\* ForwardedEvent.sequence_id is a u64 read from the datagram, and usize has
\* 64 bits on the targets of the program. Both are modelled by unsigned
\* words of WordBits bits, so that the ends of the range are within reach.
WordBits == 4
WordLimit == 2^WordBits

\* how many ids at either end of the range the sets are drawn from
MaxEdge == 3
WireIds == (0..(MaxEdge - 1)) \cup ((WordLimit - MaxEdge)..(WordLimit - 1))

\* The workspace sets no profile option: the dev profile is built with
\* overflow checks, where + and - panic when the result does not fit, and
\* the release profile without, where they wrap.
Builds == {"dev", "release"}

\* a + b and a - b of words under the given build: <<panicked, result>>
WordAdd(a, b, build) ==
    IF build = "dev" /\ a + b >= WordLimit
    THEN <<TRUE, 0>>
    ELSE <<FALSE, (a + b) % WordLimit>>
WordSub(a, b, build) ==
    IF build = "dev" /\ a < b
    THEN <<TRUE, 0>>
    ELSE <<FALSE, (a - b + WordLimit) % WordLimit>>

\* "Detect packet loss by checking for gaps in sequence IDs", in the
\* arithmetic of the source: <<panicked, events_lost>>
EventsLostOnWire(ids, build) ==
    IF ids # {}
    THEN LET min_seq == SetMin(ids)
             max_seq == SetMax(ids)
             span == WordSub(max_seq, min_seq, build)
             expected_count == IF span[1]
                               THEN span
                               ELSE WordAdd(span[2], 1, build)
             actual_count == Cardinality(ids)
         IN  IF expected_count[1]
             THEN expected_count
             ELSE WordSub(expected_count[2], actual_count, build)
    ELSE <<FALSE, 0>>

InitLossOnWire ==
    /\ loss_issued = 0
    /\ loss_ids \in SUBSET WireIds
    /\ loss_result = {}
    /\ loss_panicked = FALSE

DetectLossOnWire ==
    /\ loss_result = {}
    /\ ~loss_panicked
    /\ \E build \in Builds :
          LET outcome == EventsLostOnWire(loss_ids, build)
          IN  /\ loss_panicked' = outcome[1]
              /\ loss_result' = IF outcome[1] THEN {} ELSE {outcome[2]}
    /\ UNCHANGED <<loss_issued, loss_ids, ovars, dvars, svars, pvars>>

NextLossOnWire == DetectLossOnWire

----------------------------------------------------------------------------
(* The statistics as functions of their arguments *)

\* records handed to from_measurements at most
MaxSamples == 3
\* largest latency of a record handed to from_measurements, in milliseconds
MaxLatency == 3
\* largest events_lost handed to from_measurements
MaxLostArg == 2

\* the measurement records of the two constructors with an end-to-end
\* latency of 1..MaxLatency and, for the relayed ones, a mid-path latency of
\* 1 or of the whole
StatRecords ==
    {NewBaseline(0, 0, t) : t \in 1..MaxLatency}
        \cup {NewAwsBackbone(0, 0, 0, t) : t \in 1..MaxLatency}
        \cup {NewAwsBackbone(0, 0, t - 1, t) : t \in 1..MaxLatency}

SeqsUpTo(S, n) == UNION {[1..k -> S] : k \in 0..n}

InitStats ==
    /\ stat_setup \in {"baseline", "aws-backbone"}
    /\ stat_ms \in SeqsUpTo(StatRecords, MaxSamples)
    /\ stat_lost \in 0..MaxLostArg
    /\ stat_result = {}

\* ExperimentResults::from_measurements(setup_type, measurements, events_lost)
ComputeStats ==
    /\ stat_result = {}
    /\ stat_result' = {FromMeasurements(stat_setup, stat_ms, stat_lost)}
    /\ UNCHANGED <<stat_setup, stat_ms, stat_lost, ovars, dvars, lvars, pvars>>

NextStats == ComputeStats

\* the latency values of the model, whole milliseconds and a tenth of one,
\* and the percentiles asked for: 0.0, 1.0, a few between, and the three
\* from_measurements asks for
PctValues == {FromInt(t) : t \in 1..MaxLatency} \cup {Literal(1, 10)}
PctArgs ==
    {0, One, Literal(1, 4), Literal(1, 3), Literal(50, 100),
     Literal(95, 100), Literal(99, 100)}

IsAscending(s) == \A i \in 1..(Len(s) - 1) : s[i] <= s[i + 1]

InitPercentile ==
    /\ pct_data \in {s \in SeqsUpTo(PctValues, MaxSamples) : IsAscending(s)}
    /\ pct_p \in PctArgs
    /\ pct_result = {}

\* ExperimentResults::percentile(sorted_data, percentile)
ComputePercentile ==
    /\ pct_result = {}
    /\ pct_result' = {Percentile(pct_data, pct_p)}
    /\ UNCHANGED <<pct_data, pct_p, ovars, dvars, lvars, svars>>

NextPercentile == ComputePercentile

----------------------------------------------------------------------------
(* The parts that stand still in a specification of another part *)

IdleDest ==
    /\ InitDest
    /\ mode = "baseline"
    /\ duration = 0

IdleLoss ==
    /\ loss_issued = 0
    /\ loss_ids = {}
    /\ loss_result = {}
    /\ loss_panicked = FALSE

IdleStats ==
    /\ stat_setup = "baseline"
    /\ stat_ms = <<>>
    /\ stat_lost = 0
    /\ stat_result = {}

IdlePercentile ==
    /\ pct_data = <<>>
    /\ pct_p = 0
    /\ pct_result = {}

IdleOrigin ==
    /\ InitOrigin
    /\ reconnect_max_delay_secs = 0
    /\ frankfurt_port = "closed"
    /\ binance_up = FALSE

----------------------------------------------------------------------------
(* Specifications *)

Init == InitOrigin /\ IdleDest /\ IdleLoss /\ IdleStats /\ IdlePercentile

Next == NextOrigin

Spec == Init /\ [][Next]_vars

DestInit == IdleOrigin /\ InitDest /\ IdleLoss /\ IdleStats /\ IdlePercentile

SpecDest == DestInit /\ [][NextDest]_vars

BaselineParseInit ==
    IdleOrigin /\ InitBaselineParse /\ IdleLoss /\ IdleStats /\ IdlePercentile

SpecBaselineParse == BaselineParseInit /\ [][NextBaselineParse]_vars

LossInit == IdleOrigin /\ IdleDest /\ InitLoss /\ IdleStats /\ IdlePercentile

SpecLoss == LossInit /\ [][NextLoss]_vars

LossOnWireInit ==
    IdleOrigin /\ IdleDest /\ InitLossOnWire /\ IdleStats /\ IdlePercentile

SpecLossOnWire == LossOnWireInit /\ [][NextLossOnWire]_vars

StatsInit == IdleOrigin /\ IdleDest /\ IdleLoss /\ InitStats /\ IdlePercentile

SpecStats == StatsInit /\ [][NextStats]_vars

PercentileInit ==
    IdleOrigin /\ IdleDest /\ IdleLoss /\ IdleStats /\ InitPercentile

SpecPercentile == PercentileInit /\ [][NextPercentile]_vars

\* The reconnect loops are straight-line code of the running task: a sleep
\* of a finite delay ends and a connection attempt returns. The retry writes
\* one small message to a connection that was just established, whose send
\* buffer is empty, so it returns as well.
LiveSpec ==
    /\ Init
    /\ [][Next]_vars
    /\ WF_vars(ReconnectFrankfurtStep /\ OriginOnly)
    /\ WF_vars(ReconnectBinanceStep /\ OriginOnly)
    /\ WF_vars(RetryStep /\ OriginOnly)

----------------------------------------------------------------------------
(* Properties of the forwarder *)

InFlight == cur # {}

\* C1: the sequence ids issued are exactly 0, 1, 2, ... in issue order (the
\* k-th parsed message gets id k-1, no id twice), and the counter always
\* equals the number of ids issued: it is never reset or decremented, across
\* malformed messages, send failures, reconnects and restarts of
\* run_forwarder.
C1_IdsGapless ==
    /\ issued = [k \in 1..Len(issued) |-> k - 1]
    /\ sequence_counter = Len(issued)

\* three ids were issued with a restart of run_forwarder (after the failed
\* retry of id 0) in between
C1_Witness ==
    /\ issued = <<0, 1, 2>>
    /\ 0 \in dropped
    /\ o_log = "Failed to parse Binance event"

\* C2: the ids of successfully written envelopes are strictly increasing
\* over the whole run, and while an envelope is being sent or retried every
\* envelope written so far has a smaller id.
C2_WrittenInOrder ==
    /\ \A i, j \in 1..Len(written) : i < j => written[i] < written[j]
    /\ InFlight => \A i \in 1..Len(written) : written[i] < The(cur)

\* id 0 was written by its retry, id 1 and id 2 after it
C2_Witness ==
    /\ written = <<0, 1, 2>>
    /\ attempts[1] = 2

\* C3: an envelope gets at most two write attempts, the second only after a
\* reconnect that followed the failed first; an envelope whose retry failed
\* is dropped and never written; every other envelope that is no longer in
\* flight was written exactly once.
C3_AtMostOneRetry ==
    /\ \A k \in 1..Len(issued) :
          /\ attempts[k] <= 2
          /\ Count(written, issued[k]) <= 1
          /\ issued[k] \in dropped =>
                attempts[k] = 2 /\ Count(written, issued[k]) = 0
          /\ Count(written, issued[k]) = 1 => attempts[k] \in {1, 2}
          /\ ~(InFlight /\ k = Len(issued)) =>
                (issued[k] \in dropped) # (Count(written, issued[k]) = 1)
    /\ pc = "send" => InFlight /\ attempts[Len(attempts)] = 0
    /\ pc \in {"reconnect_frankfurt", "reconnect_frankfurt_connect", "retry"} =>
          InFlight /\ attempts[Len(attempts)] = 1
    /\ pc \notin {"send", "reconnect_frankfurt", "reconnect_frankfurt_connect",
                  "retry"} => ~InFlight

\* id 0 was dropped after its failed retry, and the forwarder went on to
\* write id 1 and to retry id 2
C3_Witness ==
    /\ dropped = {0}
    /\ written = <<1>>
    /\ pc = "retry"
    /\ cur = {2}

\* C5: within a reconnection episode with maximum delay M >= 1 the wait
\* before the n-th attempt is min(2^(n-1), M), and the next wait the loop
\* holds is min(2^n, M).
C5_BackoffSchedule ==
    (reconnect_max_delay_secs >= 1 /\ attempt_no \in 1..MaxAttempts) =>
        /\ last_wait = Min(Pow2(attempt_no - 1), reconnect_max_delay_secs)
        /\ pc \in {"reconnect_frankfurt", "reconnect_binance"} =>
              delay = Min(Pow2(attempt_no), reconnect_max_delay_secs)

\* the third attempt of a Binance episode waits the maximum of 3 instead of
\* 4
C5_Witness ==
    /\ reconnect_max_delay_secs = 3
    /\ episode_leg = "binance"
    /\ attempt_no = 3
    /\ last_wait = 3
    /\ pc = "reconnect_binance_connect"

InReconnectFrankfurt ==
    pc \in {"reconnect_frankfurt", "reconnect_frankfurt_connect"}
InReconnectBinance ==
    pc \in {"reconnect_binance", "reconnect_binance_connect"}

\* C6: a reconnection episode is left only with a connected stream (to the
\* retry for Frankfurt, back to reading for Binance), never with an error,
\* after any number of failed attempts; and if the peer eventually stays
\* reachable the episode ends.
C6_NeverGivesUp ==
    /\ [][/\ (InReconnectFrankfurt /\ ~InReconnectFrankfurt') =>
               (pc' = "retry" /\ tcp_stream' = "open" /\ FrankfurtAccepts)
          /\ (InReconnectBinance /\ ~InReconnectBinance') =>
               (pc' = "read" /\ ws_stream' = "open" /\ BinanceAccepts)]_vars
    /\ <>[]FrankfurtAccepts => (InReconnectFrankfurt ~> (pc = "retry"))
    /\ <>[]BinanceAccepts => (InReconnectBinance ~> (pc = "read"))

\* a Frankfurt episode that ended connected after more failed attempts than
\* the model counts
C6_Witness ==
    /\ pc = "retry"
    /\ attempt_no > MaxAttempts
    /\ tcp_stream = "open"

\* C7 as claimed: every forwarding failure resolves, the retry succeeding
\* or the message being dropped, and the forwarder gets back to its
\* upstream side.
C7_ForwardFailureResolves ==
    InReconnectFrankfurt ~> ~InFlight

\* C8 as claimed: a step closes a leg's connection only when it handles a
\* failure of that same leg: the Frankfurt stream is dropped only by the
\* failed retry send, the Binance stream only by an event of the upstream
\* stream.
C8_LegsIndependent ==
    [][/\ (tcp_stream = "open" /\ tcp_stream' = "none") => pc = "retry"
       /\ (ws_stream = "open" /\ ws_stream' = "none") => pc = "read"]_vars

\* C9 as claimed: with the receiver's relay mode bound on the port and the
\* network healthy, a connection attempt of the forwarder succeeds.
C9_TransportAgrees ==
    [][(/\ frankfurt_port = ReceiverRelayBound
        /\ pc \in {"main", "reconnect_frankfurt_connect"}
        /\ pc' # pc)
       => tcp_stream' = "open"]_vars

\* C12: the step that handles a malformed upstream payload logs the parse
\* failure and changes nothing else: the counter keeps its value, no id is
\* issued, nothing is written or attempted downstream, both streams stay as
\* they are and the forwarder keeps reading; and whenever an id is issued it
\* is the counter's value, which directly follows the last issued id.
C12_MalformedSkipped ==
    [][/\ (pc = "read" /\ o_log' = "Failed to parse Binance event"
                       /\ o_log' # o_log) =>
             /\ pc' = "read"
             /\ sequence_counter' = sequence_counter
             /\ UNCHANGED <<issued, attempts, written, dropped, cur>>
             /\ UNCHANGED <<tcp_stream, ws_stream>>
       /\ issued' # issued =>
             /\ issued' = Append(issued, sequence_counter)
             /\ cur' = {sequence_counter}
             /\ issued # <<>> => sequence_counter = issued[Len(issued)] + 1]_vars

\* a malformed payload was logged after id 0 was retried and written, and
\* the next well-formed message got id 1
C12_Witness ==
    /\ o_log = "Failed to parse Binance event"
    /\ attempts = <<2, 0>>
    /\ written = <<0>>
    /\ pc = "send"
    /\ cur = {1}

\* C20: every reconnection episode of either leg starts at the initial
\* delay: the step that enters an episode sets the delay to 1 whatever the
\* episode before (of this leg or the other) had reached, and the first
\* sleep of an episode lasts 1, also when the configured maximum is lower.
C20_DelayResets ==
    [][/\ ((~InReconnectFrankfurt /\ InReconnectFrankfurt')
            \/ (~InReconnectBinance /\ InReconnectBinance')) =>
               (delay' = 1 /\ attempt_no' = 0)
       /\ ((InReconnectFrankfurt \/ InReconnectBinance)
            /\ attempt_no = 0 /\ attempt_no' = 1) =>
               (last_wait' = 1 /\ delay' = 1)]_vars

\* a Frankfurt episode entered with the delay back at 1 after the episode
\* before, which reconnected and delivered id 0, had waited 4 last
C20_Witness ==
    /\ pc = "reconnect_frankfurt"
    /\ attempts = <<2, 1>>
    /\ written = <<0>>
    /\ last_wait = 4
    /\ attempt_no = 0
    /\ delay = 1

\* C21 as claimed: whatever maximum delay is configured, no wait the
\* forwarder performs before a connection attempt, to either leg, is longer
\* than that maximum: not a sleep of a reconnect loop, and not the sleep of
\* main before it starts run_forwarder again.
C21_WaitsWithinMax ==
    last_wait <= reconnect_max_delay_secs

\* the waits of a leg's backoff sequence: the initial delay and its
\* doublings, each capped at the configured maximum
BackoffWaits ==
    {InitialDelay}
        \cup {Min(2^k, reconnect_max_delay_secs) : k \in 0..MaxAttempts}

\* C24 as claimed: every connection attempt made after a leg failed, closed
\* or ended follows a wait of the backoff sequence 1, 2, 4, ... (capped): the
\* attempts of the reconnect loops, and the attempts run_forwarder makes when
\* main calls it again after an error or after the upstream stream ended.
C24_ReconnectsBackOff ==
    [][/\ (pc \in {"reconnect_frankfurt_connect", "reconnect_binance_connect"}
            /\ pc' # pc) => last_wait \in BackoffWaits
       /\ (pc = "main" /\ pc' # pc /\ o_log # "Tokyo Forwarder starting") =>
             last_wait' \in BackoffWaits]_vars

----------------------------------------------------------------------------
(* Properties of the receiver *)

\* the ids of the span of S that S lacks
MissingInSpan(S) == {x \in SetMin(S)..SetMax(S) : x \notin S}

Contiguous(S) == S # {} /\ S = SetMin(S)..SetMax(S)

\* C4: for the set S of distinct received ids the loss count is
\* (max(S) - min(S) + 1) - |S|, the number of ids between min and max that
\* were not received, when S is non-empty and 0 when it is empty: 0 for a
\* contiguous S (a single id included), 2 for {0,1,2,5,6} and 1 for
\* {0,1,2,4,...,9}.
C4_LossCount ==
    loss_result # {} =>
        /\ loss_ids = {} => loss_result = {0}
        /\ loss_ids # {} =>
              /\ The(loss_result) = (SetMax(loss_ids) - SetMin(loss_ids) + 1)
                                       - Cardinality(loss_ids)
              /\ The(loss_result) = Cardinality(MissingInSpan(loss_ids))
        /\ Contiguous(loss_ids) => loss_result = {0}
        /\ loss_ids = {0, 1, 2, 5, 6} => loss_result = {2}
        /\ loss_ids = {0, 1, 2, 4, 5, 6, 7, 8, 9} => loss_result = {1}

\* the loss of {0,1,2,5,6} was computed, and is 2
C4_Witness ==
    /\ loss_ids = {0, 1, 2, 5, 6}
    /\ loss_result = {2}

\* the ids the origin issued, 0 .. loss_issued - 1 (C1), that were not received
LostInTransit == (0..(loss_issued - 1)) \ loss_ids

\* C28: with the origin's ids 0 .. n-1 and a set S of them received, each
\* once, events_lost never exceeds the number of issued ids that were not
\* received; when S is not empty it equals that number exactly when no id
\* below min(S) and no id above max(S) was lost, and every id lost beyond
\* the two ends is one it falls short by; when nothing was received it is 0.
C28_LossWithinTransitLoss ==
    loss_result # {} =>
        LET lost == LostInTransit
            events_lost == The(loss_result)
            outside == {x \in lost : x < SetMin(loss_ids) \/ x > SetMax(loss_ids)}
        IN  /\ events_lost >= 0
            /\ events_lost <= Cardinality(lost)
            /\ loss_ids # {} =>
                  /\ (events_lost = Cardinality(lost)) <=> (outside = {})
                  /\ events_lost = Cardinality(lost) - Cardinality(outside)
            /\ loss_ids = {} => events_lost = 0

\* of the ids 0..4 the ids 1 and 3 were received: three were lost, and the
\* one between the received ids was counted
C28_Witness ==
    /\ loss_issued = 5
    /\ loss_ids = {1, 3}
    /\ loss_result = {1}

\* C29 as claimed: for every non-empty set of ids the wire can carry the
\* loss computation finishes without an overflow or underflow of its
\* arithmetic, and its result is the mathematical value of
\* (max - min + 1) - |S|, which is not negative.
C29_LossWithoutOverflow ==
    /\ ~loss_panicked
    /\ (loss_result # {} /\ loss_ids # {}) =>
          /\ The(loss_result) = (SetMax(loss_ids) - SetMin(loss_ids) + 1)
                                    - Cardinality(loss_ids)
          /\ The(loss_result) >= 0

\* C10: the ingestion loop never runs past the deadline: before every wait
\* the remaining time is recomputed as duration minus elapsed, the wait
\* lasts at most that long, no message is stamped after the deadline, a
\* wait that expires ends the loop exactly at the deadline, and the loop is
\* left for finalization no later than the deadline.
C10_StopsAtDeadline ==
    /\ now <= duration
    /\ d_pc = "wait" => (remaining = duration - now /\ remaining > 0)
    /\ \A i \in 1..Len(measurements) :
          measurements[i].frankfurt_receive_time <= duration
    /\ exit_cause \in {"timeout", "duration"} => now = duration
    /\ d_pc \in {"collected", "done", "failed"} => exit_cause # "none"

\* a relay run whose first two waits ended with messages, at times 0 and 1,
\* and whose third wait expired at the deadline
C10_Witness ==
    /\ mode = "aws-backbone"
    /\ duration = 2
    /\ now = 2
    /\ Len(measurements) = 2
    /\ measurements[1].frankfurt_receive_time = 0
    /\ measurements[2].frankfurt_receive_time = 1
    /\ exit_cause = "timeout"
    /\ d_pc = "done"

\* C11 as claimed: in each run the final aggregate is computed exactly once,
\* after the ingestion loop was left (by whichever of its exits), never
\* while it runs; it is computed over all the measurements collected, in
\* arrival order, and the collection is the same ever after.
C11_AggregateExactlyOnce ==
    /\ d_pc \in {"loop", "wait", "collected"} => aggregated = <<>>
    /\ d_pc \in {"done", "failed"} =>
          /\ aggregated = <<measurements>>
          /\ results = FromMeasurements(mode, measurements, LossArgument)

\* C13 as claimed: an error during ingestion does not end the collection:
\* the ingestion loop is left only when the deadline has been reached, also
\* after a receive error on the relay socket or an error or close of the
\* upstream stream.
C13_ErrorsDoNotCutShort ==
    d_pc \in {"collected", "done", "failed"} => now >= duration

\* the summary of a run of the given setup without samples and without loss
ZeroSummary(setup_type) ==
    [setup_type |-> setup_type, sample_count |-> 0, events_lost |-> 0,
     avg_latency_ms |-> 0, median_latency_ms |-> 0, p95_latency_ms |-> 0,
     p99_latency_ms |-> 0, min_latency_ms |-> 0, max_latency_ms |-> 0,
     jitter_stddev_ms |-> 0, backbone_avg_latency_ms |-> {},
     backbone_median_latency_ms |-> {}]

\* C14: a session that collects nothing is ended by the deadline and not
\* earlier: the wait that meets no data expires when the whole remaining
\* budget has passed, so the loop is left at the deadline with an empty
\* collection; this exit is the ordinary one, and the summary of a run
\* without samples is the valid summary with sample_count = 0 and
\* events_lost = 0.
C14_ZeroSampleRun ==
    /\ (measurements = <<>> /\ exit_cause \in {"timeout", "duration"}) =>
          /\ now = duration
          /\ d_pc \in {"collected", "done", "failed"}
          /\ received_sequence_ids = {}
    /\ (measurements = <<>> /\ d_pc = "done") =>
          /\ results = ZeroSummary(mode)
          /\ aggregated = <<measurements>>

\* a relay run of 2 seconds that met no data: its wait expired at the
\* deadline and the zero-sample summary was written
C14_Witness ==
    /\ mode = "aws-backbone"
    /\ duration = 2
    /\ now = 2
    /\ exit_cause = "timeout"
    /\ measurements = <<>>
    /\ d_pc = "done"
    /\ results.sample_count = 0
    /\ d_log = "Results written"

\* C16: in baseline mode every measurement record has its mid-path receive
\* time and its mid-path latency absent, and the summary, once computed,
\* reports events_lost = 0 (and no backbone figure), whatever was received,
\* skipped or failed to parse.
C16_BaselineNoLoss ==
    mode = "baseline" =>
        /\ \A i \in 1..Len(measurements) :
              /\ measurements[i].tokyo_receive_time = {}
              /\ measurements[i].backbone_latency_ms = {}
        /\ aggregated # <<>> =>
              /\ results.setup_type = "baseline"
              /\ results.events_lost = 0
              /\ results.backbone_avg_latency_ms = {}
              /\ results.backbone_median_latency_ms = {}

\* a baseline run that collected two measurements, was ended by the close
\* of the stream and wrote its summary
C16_Witness ==
    /\ mode = "baseline"
    /\ Len(measurements) = 2
    /\ exit_cause = "closed"
    /\ d_pc = "done"
    /\ results.sample_count = 2
    /\ results.events_lost = 0

\* the sequence ids of the measurement records
RecordedIds == {measurements[i].sequence_id : i \in 1..Len(measurements)}

\* the events_lost of a run, from its measurement records alone
LossOfRecords ==
    IF mode = "aws-backbone" THEN EventsLost(RecordedIds) ELSE 0

\* C22: the rolling view stays apart from the final aggregate: a step that
\* touches the rolling state (adds a sample, emits a report, clears the
\* accumulator) leaves the records collected before it in place and adds
\* the one record it received, and adds at most that record's id to the
\* received ids; and the summary, once computed, is from_measurements of
\* the complete collection and of the loss its ids show, whatever the
\* rolling view reported and whenever.
C22_RollingViewApart ==
    /\ [][(<<events_this_second, latencies_this_second, last_second_report,
             last_report>>' #
           <<events_this_second, latencies_this_second, last_second_report,
             last_report>>) =>
             /\ Len(measurements') = Len(measurements) + 1
             /\ SubSeq(measurements', 1, Len(measurements)) = measurements
             /\ received_sequence_ids' = RecordedIds'
                    \/ received_sequence_ids' = received_sequence_ids]_vars
    /\ [](aggregated # <<>> =>
             /\ aggregated = <<measurements>>
             /\ results =
                   FromMeasurements(mode, measurements, LossOfRecords))

\* a baseline run whose second sample, a second after the first, made the
\* rolling view report both and clear its accumulator, and whose summary
\* counts both samples
C22_Witness ==
    /\ mode = "baseline"
    /\ Len(measurements) = 2
    /\ last_report.n = 2
    /\ last_report.at = 1
    /\ latencies_this_second = <<>>
    /\ d_pc = "done"
    /\ results.sample_count = 2

\* C23 as claimed: when the receiver has dropped a malformed message the
\* last line it logged is the one of that parse failure, in relay mode and
\* in baseline mode, however many records were accepted before.
C23_MalformedLogged ==
    (d_pc = "loop" /\ inbound = "malformed") =>
        d_log \in {"Failed to parse", "Failed to parse message"}

\* the records the last rolling report covered
LastReported ==
    LET upto == Len(measurements) - Len(latencies_this_second)
    IN  (upto - last_report.n + 1)..upto

\* C25 as claimed: a rolling report covers the samples of a single
\* one-second interval, none of them more than a second apart, and every
\* recorded sample is covered by a report: when the collection has ended
\* no sample is left in the accumulator.
C25_ReportsCoverIntervals ==
    /\ last_report # NoReport =>
          \A i, j \in LastReported :
              measurements[j].frankfurt_receive_time
                  - measurements[i].frankfurt_receive_time <= 1
    /\ d_pc \in {"collected", "done", "failed"} =>
          latencies_this_second = <<>>

\* C26: the step that handles an inbound unit that fails to parse (or, in
\* baseline mode, is not text) creates no measurement record, adds nothing
\* to the received ids, leaves baseline's sequence id and the rolling
\* accumulator as they are, and the loop goes on with its next deadline
\* check.
C26_ParseFailureChangesNothing ==
    [][(d_pc = "wait" /\ inbound' \in {"malformed", "nontext"}) =>
          /\ UNCHANGED <<measurements, received_sequence_ids, sequence_id>>
          /\ UNCHANGED <<events_this_second, latencies_this_second,
                         last_second_report, last_report>>
          /\ UNCHANGED <<exit_cause, results, aggregated>>
          /\ d_pc' = "loop"]_vars

\* a baseline run that accepted one message and then dropped a malformed
\* one with the accepted sample still in the accumulator
C26_Witness ==
    /\ mode = "baseline"
    /\ d_pc = "loop"
    /\ inbound = "malformed"
    /\ d_log = "Failed to parse message"
    /\ sequence_id = 1
    /\ Len(measurements) = 1
    /\ Len(latencies_this_second) = 1

\* C27: in relay mode every envelope received is recorded as a further
\* measurement, also one whose id was received before; so sample_count is
\* at least the number of distinct ids received, and equal to it exactly
\* when no two records have the same id; events_lost is the loss of the set
\* of distinct ids, whatever their order and however often they came.
C27_DuplicatesCounted ==
    /\ [][(mode = "aws-backbone" /\ d_pc = "wait" /\ inbound' = "event") =>
             /\ Len(measurements') = Len(measurements) + 1
             /\ received_sequence_ids' = received_sequence_ids
                    \cup {measurements'[Len(measurements')].sequence_id}]_vars
    /\ [](mode = "aws-backbone" =>
             /\ received_sequence_ids = RecordedIds
             /\ aggregated # <<>> =>
                   /\ results.sample_count = Len(measurements)
                   /\ results.sample_count
                         >= Cardinality(received_sequence_ids)
                   /\ (results.sample_count
                          = Cardinality(received_sequence_ids))
                         <=> (\A i, j \in 1..Len(measurements) :
                                 i # j => measurements[i].sequence_id
                                            # measurements[j].sequence_id)
                   /\ results.events_lost
                         = EventsLost(received_sequence_ids))

\* a relay run that received the envelope of id 1 twice: two samples, one
\* distinct id, nothing lost
C27_Witness ==
    /\ mode = "aws-backbone"
    /\ Len(measurements) = 2
    /\ measurements[1].sequence_id = 1
    /\ measurements[2].sequence_id = 1
    /\ received_sequence_ids = {1}
    /\ d_pc = "done"
    /\ results.sample_count = 2
    /\ results.events_lost = 0

----------------------------------------------------------------------------
(* Properties of the statistics *)

\* C15: for an empty collection from_measurements returns sample_count 0,
\* every latency statistic (avg, median, p95, p99, min, max, jitter) zero,
\* events_lost as it was passed in and both backbone figures absent.
C15_EmptyCollection ==
    (stat_ms = <<>> /\ stat_result # {}) =>
        /\ The(stat_result).sample_count = 0
        /\ The(stat_result).events_lost = stat_lost
        /\ The(stat_result).setup_type = stat_setup
        /\ \A f \in {"avg_latency_ms", "median_latency_ms", "p95_latency_ms",
                      "p99_latency_ms", "min_latency_ms", "max_latency_ms",
                      "jitter_stddev_ms"} : The(stat_result)[f] = 0
        /\ The(stat_result).backbone_avg_latency_ms = {}
        /\ The(stat_result).backbone_median_latency_ms = {}

\* the summary of the empty collection was computed with events_lost = 2
C15_Witness ==
    /\ stat_ms = <<>>
    /\ stat_lost = 2
    /\ stat_result # {}
    /\ The(stat_result).events_lost = 2

\* the mid-path latencies of the records of ms that carry one, in order
RECURSIVE CarriedLatencies(_)
CarriedLatencies(ms) ==
    IF ms = <<>>
    THEN <<>>
    ELSE (IF Head(ms).backbone_latency_ms # {}
          THEN <<The(Head(ms).backbone_latency_ms)>>
          ELSE <<>>) \o CarriedLatencies(Tail(ms))

\* C17: the summary's backbone average and median are present if and only
\* if at least one record carries a mid-path latency; they are then the mean
\* and the median (interpolated between the two middle values) of exactly
\* the carried latencies (the median lies between the smallest and the
\* largest of them, is the middle one of an odd number and the sum of the
\* halves of two), and the latency itself when one record carries one; when
\* no record carries one they are absent, not 0.
C17_BackboneFigures ==
    stat_result # {} =>
        LET r == The(stat_result)
            carried == SortAscending(CarriedLatencies(stat_ms))
            n == Len(carried)
        IN  /\ (r.backbone_avg_latency_ms # {}) <=> (n > 0)
            /\ (r.backbone_median_latency_ms # {}) <=> (n > 0)
            /\ n > 0 =>
                  /\ r.backbone_avg_latency_ms =
                         {FDiv(FSum(carried), FromInt(n))}
                  /\ The(r.backbone_median_latency_ms) >= carried[1]
                  /\ The(r.backbone_median_latency_ms) <= carried[n]
                  /\ n % 2 = 1 =>
                        r.backbone_median_latency_ms =
                            {carried[(n + 1) \div 2]}
                  /\ n = 2 =>
                        r.backbone_median_latency_ms =
                            {FAdd(FMul(carried[1], Literal(1, 2)),
                                  FMul(carried[2], Literal(1, 2)))}
            /\ n = 1 => /\ r.backbone_avg_latency_ms = {carried[1]}
                        /\ r.backbone_median_latency_ms = {carried[1]}

\* a collection of three records of which the second and the third carry
\* mid-path latencies, 1 ms and 3 ms: the backbone mean and median are 2 ms
C17_Witness ==
    /\ Len(stat_ms) = 3
    /\ stat_ms[1].backbone_latency_ms = {}
    /\ stat_ms[2].backbone_latency_ms = {FromInt(1)}
    /\ stat_ms[3].backbone_latency_ms = {FromInt(3)}
    /\ stat_result # {}
    /\ The(stat_result).backbone_avg_latency_ms = {FromInt(2)}
    /\ The(stat_result).backbone_median_latency_ms = {FromInt(2)}

\* C18: for a non-empty ascending collection percentile(values, 0.0) is the
\* minimum and percentile(values, 1.0) the maximum, the two indices the
\* interpolation reads lie within the collection for every p in [0,1], and
\* for a single element the result is that element for every p.
C18_PercentileEndpoints ==
    (pct_result # {} /\ pct_data # <<>>) =>
        LET len == Len(pct_data)
            index == PercentileIndex(len, pct_p)
        IN  /\ pct_p = 0 => pct_result = {SeqMin(pct_data)}
            /\ pct_p = One => pct_result = {SeqMax(pct_data)}
            /\ len = 1 => pct_result = {pct_data[1]}
            /\ len >= 2 => /\ FFloor(index) \in 0..(len - 1)
                           /\ FCeil(index) \in 0..(len - 1)

\* percentile(<<1, 2, 3>>, 1.0) was computed, and is 3
C18_Witness ==
    /\ pct_data = <<FromInt(1), FromInt(2), FromInt(3)>>
    /\ pct_p = One
    /\ pct_result = {FromInt(3)}

\* C19 as claimed: for every non-empty collection whose end-to-end
\* latencies are all the same value the jitter from_measurements reports is
\* exactly 0.
C19_ConstantJitterZero ==
    (/\ stat_result # {}
     /\ stat_ms # <<>>
     /\ \A i, j \in 1..Len(stat_ms) :
           stat_ms[i].end_to_end_latency_ms = stat_ms[j].end_to_end_latency_ms)
        => The(stat_result).jitter_stddev_ms = 0

====
